---- MODULE Spec2Model ----
(***************************************************************************)
(* Interview orchestration and results pipeline of the interview           *)
(* preparation web app: the session context (AppProvider), the turn loop   *)
(* of InterviewPage (getNextAiMessage and its two trigger effects), the    *)
(* speech collaborator, and the results pipeline of ResultsPage            *)
(* (fetchResults and its effect).                                          *)
(*                                                                         *)
(* An optional value (null or a value) is a sequence of length 0 or 1.     *)
(* A text is a sequence of fragment tokens, so that concatenation in the   *)
(* code is concatenation here.                                             *)
(***************************************************************************)
EXTENDS Integers, Sequences, FiniteSets, TLC

\* ---------------------------------------------------------------- bounds
MaxSessions == 2
MaxTurns == 2
MaxFrags == 2
MaxRuns == 3

\* ------------------------------------------------------ program constants
maxRetries == 2

Goals == {"backend", "analyst"}
TypeChoices == {<<"technical">>}
Frags == {"a", "b"}
UserTexts == {<<"u">>}
Levels == {"Beginner", "Intermediate", "Advanced"}
RoadmapPayloads == {<<[title |-> "t1"]>>, <<[title |-> "t1"], [title |-> "t2"]>>}
Times == {1}

StartMessage == <<"Start the interview.">>
ErrorMessage == <<"I'm sorry, I'm having trouble connecting right now.">>
RetryNotice == <<"I'm having a little trouble connecting.">>
NoDataError == "No interview data found. Please start a new interview."
ExhaustedError == "I'm sorry, I encountered an issue while generating your results."

Null == <<>>
Some(x) == <<x>>
Last(s) == s[Len(s)]

VARIABLES
    page, user, interviewTypes, transcript, evaluation, roadmap,
    chat,
    session, status, currentAiResponse,
    isListening, speechQ,
    runs, nStarted, nEntries, turnLog,
    isLoading, error, fetches, effSawEval, endedBy,
    resume, jobDescription, result, rcIsLoading, rcError, rcPending, response,
    lastCall,
    messageHistory, call, sent

ctxVars == <<page, user, interviewTypes, transcript, evaluation, roadmap>>
ipVars == <<session, status, currentAiResponse>>
speechVars == <<isListening, speechQ>>
turnVars == <<runs, nStarted, nEntries, turnLog>>
rpVars == <<isLoading, error, fetches, effSawEval, endedBy>>
rcVars == <<resume, jobDescription, result, rcIsLoading, rcError, rcPending, response>>
svcVars == <<messageHistory, call, sent>>
extVars == <<lastCall, svcVars>>
vars == <<ctxVars, chat, ipVars, speechVars, turnVars, rpVars, rcVars, extVars>>

\* ------------------------------------------------------- retry / backoff
\* Math.pow(2, attempt) * 1000
RECURSIVE Pow2(_)
Pow2(n) == IF n = 0 THEN 1 ELSE 2 * Pow2(n - 1)

BackoffDelayHalved(attempt) == Pow2(attempt - 1) * 1000
BackoffDelay(attempt) == Pow2(attempt) * 1000

\* the loop condition "attempt > maxRetries" of both catch branches
RetriesExhausted(attempt) == attempt > maxRetries

\* ------------------------------------------------- InterviewPage effects
\* useEffect: user && transcript.length === 0 && interviewTypes.length > 0
EffectAFires(u, t, types) == u # Null /\ Len(t) = 0 /\ Len(types) > 0

\* useEffect: status === 'thinking' && transcript.length > 0 && last speaker is 'user'
EffectBFiresAnySpeaker(st, t) == st = "thinking" /\ Len(t) > 0
EffectBFires(st, t) ==
    st = "thinking" /\ Len(t) > 0 /\ Last(t).speaker = "user"

EffectAMsgs(pg, u, t, types) ==
    IF pg = "interview" /\ EffectAFires(u, t, types) THEN <<StartMessage>> ELSE <<>>
EffectBMsgs(pg, st, t) ==
    IF pg = "interview" /\ EffectBFires(st, t) THEN <<Last(t).text>> ELSE <<>>

\* aiService.startInterviewChat(user.goal, interviewTypes), called by effect A
ChatAfterEffectA(pg, u, t, types) ==
    IF pg = "interview" /\ EffectAFires(u, t, types) THEN Some(u[1].goal) ELSE chat

\* processStream: let fullText = "" at the start of every call
processStreamKeeps(previous) == previous
processStreamStart(previous) == <<>>

\* processStream: fullText += chunkText
AccumulateFront(fullText, chunkText) == <<chunkText>> \o fullText
Accumulate(fullText, chunkText) == fullText \o <<chunkText>>

\* getNextAiMessage(message): the run up to its first await. yielded is the
\* provider's side of the stream of the current attempt, fullText the consumer's
\* accumulator; lost records that an earlier attempt failed after yielding
\* fragments.
NewRun(i, sess, msg, ch) ==
    [id |-> i, session |-> sess, message |-> msg, attempt |-> 0, pc |-> "stream",
     fullText |-> <<>>, yielded |-> <<>>, lost |-> FALSE, chat |-> ch, tries |-> 1,
     delays |-> <<>>]
NewRuns(msgs, sess, ch) ==
    {NewRun(nStarted + i, sess, msgs[i], ch) : i \in 1..Len(msgs)}

Live(r) == page = "interview" /\ r.session = session


\* ------------------------------------------------- ResultsPage effect
\* fetchResults: if (!user || transcript.length === 0)
MissingPrerequisiteNever(u, t) == FALSE
MissingPrerequisiteTranscriptOnly(u, t) == Len(t) = 0
MissingPrerequisite(u, t) == u = Null \/ Len(t) = 0

\* useEffect body: if (!evaluation) fetchResults()
ResultsEffectFetchesAlways(ev) == TRUE
ResultsEffectFetches(ev) == ev = Null

NewFetch(u, t) ==
    [session |-> session, transcript |-> t, user |-> u, attempt |-> 0, pc |-> "eval",
     evalResult |-> Null, rmArgs |-> <<>>, lastFailed |-> "none", tries |-> 1,
     delays |-> <<>>, stale |-> FALSE]

\* the effect of ResultsPage run on (user, transcript, evaluation) with the page's
\* local state (fs, ld, er)
ResultsEffect(u, t, ev, fs, ld, er) ==
    IF ResultsEffectFetches(ev)
    THEN IF MissingPrerequisite(u, t)
         THEN [fetches |-> fs, isLoading |-> FALSE, error |-> Some(NoDataError),
               saw |-> "null"]
         ELSE [fetches |-> Append(fs, NewFetch(u, t)), isLoading |-> TRUE, error |-> Null,
               saw |-> "null"]
    ELSE [fetches |-> fs, isLoading |-> FALSE, error |-> er, saw |-> "set"]

\* ResultsPage mounts: useState initial values, then the effect
MountResults(u, t, ev, fs) == ResultsEffect(u, t, ev, fs, TRUE, Null)

MarkStale(fs) == [i \in 1..Len(fs) |-> [fs[i] EXCEPT !.stale = TRUE]]
RemoveAt(s, i) == [j \in 1..(Len(s) - 1) |-> IF j < i THEN s[j] ELSE s[j + 1]]


\* ----------------------------------------------------- ResumeCheckerPage
\* useState initial values of ResumeCheckerPage; also stands for the page unmounted
\* no context function has been called yet on the roadmap
NoCall == [op |-> "none", items |-> <<>>, id |-> <<>>]

\* the OpenAI client as constructed (messageHistory = []), nothing requested yet
ServicesConstructed ==
    /\ lastCall = NoCall
    /\ messageHistory = <<>>
    /\ call = Null
    /\ sent = <<>>

ResumeCheckerUnmounted ==
    /\ resume = <<>>
    /\ jobDescription = <<>>
    /\ result = Null
    /\ rcIsLoading = FALSE
    /\ rcError = Null
    /\ rcPending = <<>>
    /\ response = Null

\* ------------------------------------------------------------------ Init
Init ==
    /\ page = "setup"
    /\ user = Null
    /\ interviewTypes = <<>>
    /\ transcript = <<>>
    /\ evaluation = Null
    /\ roadmap = <<>>
    /\ chat = Null
    /\ session = 0
    /\ status = "thinking"
    /\ currentAiResponse = <<>>
    /\ isListening = FALSE
    /\ speechQ = <<>>
    /\ runs = {}
    /\ nStarted = 0
    /\ nEntries = 0
    /\ turnLog = "none"
    /\ isLoading = TRUE
    /\ error = Null
    /\ fetches = <<>>
    /\ effSawEval = "none"
    /\ endedBy = "none"
    /\ ResumeCheckerUnmounted
    /\ ServicesConstructed


\* --------------------------------------------------------- speech (hook)
isSpeaking == speechQ # <<>>
\* the capture control: disabled={isSpeaking || status === 'thinking'}
MicEnabledWhileThinking == ~isSpeaking
MicEnabledWhileSpeaking == ~(status = "thinking")
MicEnabled == ~(isSpeaking \/ status = "thinking")

\* addMessageToTranscript: setTranscript(prev => [...prev, message])
addMessageToTranscriptFront(prev, message) == <<message>> \o prev
addMessageToTranscript(prev, message) == prev \o <<message>>

AiMessage(text) == [speaker |-> "ai", text |-> text, image |-> "none"]
UserMessage(text, image) == [speaker |-> "user", text |-> text, image |-> image]

\* the effect of ResultsPage re-runs when the transcript changes under it
ResultsAfterTranscript(t) ==
    IF page = "results"
    THEN ResultsEffect(user, t, evaluation, fetches, isLoading, error)
    ELSE [fetches |-> fetches, isLoading |-> isLoading, error |-> error, saw |-> effSawEval]

SetResultsPage(re) ==
    /\ fetches' = re.fetches
    /\ isLoading' = re.isLoading
    /\ error' = re.error
    /\ effSawEval' = re.saw

\* ------------------------------------------------------------- SetupPage
\* SetupPage.handleSubmit -> startInterview; InterviewPage mounts and runs its effects
StartInterview(name, goal, types, cap) ==
    /\ page = "setup"
    /\ session < MaxSessions
    /\ nStarted < cap
    /\ LET u == Some([name |-> name, goal |-> goal])
           ch == ChatAfterEffectA("interview", u, transcript, types)
           msgs == EffectAMsgs("interview", u, transcript, types)
                     \o EffectBMsgs("interview", "thinking", transcript)
       IN /\ user' = u
          /\ interviewTypes' = types
          /\ page' = "interview"
          /\ session' = session + 1
          /\ status' = "thinking"
          /\ currentAiResponse' = <<>>
          /\ chat' = ch
          /\ runs' = runs \cup NewRuns(msgs, session + 1, ch)
          /\ nStarted' = nStarted + Len(msgs)
          /\ nEntries' = nEntries + (IF transcript = <<>> THEN 1 ELSE 0)
    /\ isListening' = FALSE
    /\ UNCHANGED <<transcript, evaluation, roadmap, speechQ, turnLog, rpVars>>
    /\ UNCHANGED <<rcVars, extVars>>

\* ---------------------------------------------------------- InterviewPage
\* handleMicClick when not listening
StartListening ==
    /\ page = "interview"
    /\ MicEnabled
    /\ ~isListening
    /\ isListening' = TRUE
    /\ UNCHANGED <<ctxVars, chat, ipVars, speechQ, turnVars, rpVars>>
    /\ UNCHANGED <<rcVars, extVars>>

\* handleMicClick when listening
StopListening ==
    /\ page = "interview"
    /\ MicEnabled
    /\ isListening
    /\ isListening' = FALSE
    /\ UNCHANGED <<ctxVars, chat, ipVars, speechQ, turnVars, rpVars>>
    /\ UNCHANGED <<rcVars, extVars>>

\* the recognizer finalizes an utterance: handleUserSpeech(text), then the effects
UserSpeech(text, image) ==
    /\ page = "interview"
    /\ isListening
    /\ nStarted < MaxTurns
    /\ LET t == addMessageToTranscript(transcript, UserMessage(text, image))
           ch == ChatAfterEffectA(page, user, t, interviewTypes)
           msgs == EffectAMsgs(page, user, t, interviewTypes)
                     \o EffectBMsgs(page, "thinking", t)
       IN /\ transcript' = t
          /\ status' = "thinking"
          /\ chat' = ch
          /\ runs' = runs \cup NewRuns(msgs, session, ch)
          /\ nStarted' = nStarted + Len(msgs)
    /\ nEntries' = nEntries + 1
    /\ isListening' = FALSE
    /\ UNCHANGED <<page, user, interviewTypes, evaluation, roadmap, session,
                   currentAiResponse, speechQ, turnLog, rpVars>>
    /\ UNCHANGED <<rcVars, extVars>>

\* setStatus('speaking') after the reply is appended; no-op once the page is gone
statusAfterReplyIdle(live, st) == IF live THEN "idle" ELSE st
statusAfterReplyThinking(live, st) == st
statusAfterReply(live, st) == IF live THEN "speaking" ELSE st

\* processStream: one fragment arrives
TurnFragment(r, f) ==
    /\ r.pc = "stream"
    /\ r.chat # Null
    /\ Len(r.yielded) < MaxFrags
    /\ LET full == Accumulate(r.fullText, f)
       IN /\ runs' = (runs \ {r}) \cup
                {[r EXCEPT !.fullText = full, !.yielded = Append(@, f)]}
          /\ currentAiResponse' = IF Live(r) THEN full ELSE currentAiResponse
    /\ UNCHANGED <<ctxVars, chat, session, status, speechVars, nStarted, nEntries,
                   turnLog, rpVars>>
    /\ UNCHANGED <<rcVars, extVars>>

\* getNextAiMessage, success path: the stream is drained
TurnSuccess(r) ==
    /\ r.pc = "stream"
    /\ r.chat # Null
    /\ LET t == addMessageToTranscript(transcript, AiMessage(r.fullText))
           st == statusAfterReply(Live(r), status)
           ch == ChatAfterEffectA(page, user, t, interviewTypes)
           msgs == EffectAMsgs(page, user, t, interviewTypes) \o EffectBMsgs(page, st, t)
       IN /\ transcript' = t
          /\ status' = st
          /\ currentAiResponse' = IF Live(r) THEN <<>> ELSE currentAiResponse
          /\ speechQ' = Append(speechQ, [onEnd |-> "idle", session |-> r.session])
          /\ chat' = ch
          /\ runs' = (runs \ {r}) \cup NewRuns(msgs, session, ch)
          /\ nStarted' = nStarted + Len(msgs)
          /\ SetResultsPage(ResultsAfterTranscript(t))
    \* how the reply now being spoken was obtained (kept until it has been spoken)
    /\ turnLog' = IF r.lost THEN "recovered" ELSE "clean"
    /\ UNCHANGED <<page, user, interviewTypes, evaluation, roadmap, session, isListening,
                   nEntries, endedBy>>
    /\ UNCHANGED <<rcVars, extVars>>

\* getNextAiMessage, catch branch: streamNextQuestion or the stream threw
TurnFail(r) ==
    /\ r.pc = "stream"
    /\ LET a == r.attempt + 1
       IN IF RetriesExhausted(a)
          THEN LET t == addMessageToTranscript(transcript, AiMessage(ErrorMessage))
                   ch == ChatAfterEffectA(page, user, t, interviewTypes)
                   msgs == EffectAMsgs(page, user, t, interviewTypes)
                             \o EffectBMsgs(page, status, t)
               IN /\ transcript' = t
                  /\ currentAiResponse' = IF Live(r) THEN <<>> ELSE currentAiResponse
                  /\ speechQ' = Append(speechQ, [onEnd |-> "results", session |-> r.session])
                  /\ chat' = ch
                  /\ runs' = (runs \ {r}) \cup NewRuns(msgs, session, ch)
                  /\ nStarted' = nStarted + Len(msgs)
                  /\ SetResultsPage(ResultsAfterTranscript(t))
                  /\ UNCHANGED endedBy
          ELSE /\ runs' = (runs \ {r}) \cup
                     {[r EXCEPT !.attempt = a, !.pc = "backoff",
                                !.lost = @ \/ r.yielded # <<>>,
                                !.delays = Append(@, BackoffDelay(a))]}
               /\ currentAiResponse' = IF Live(r) THEN RetryNotice ELSE currentAiResponse
               /\ UNCHANGED <<transcript, speechQ, chat, nStarted, rpVars>>
    /\ UNCHANGED <<page, user, interviewTypes, evaluation, roadmap, session, status,
                   isListening, nEntries, turnLog>>
    /\ UNCHANGED <<rcVars, extVars>>

\* the backoff timer fires: the while loop tests attempt <= maxRetries and tries again
TurnRetry(r) ==
    /\ r.pc = "backoff"
    /\ runs' = IF r.attempt <= maxRetries
               THEN (runs \ {r}) \cup
                      {[r EXCEPT !.pc = "stream", !.fullText = processStreamStart(@),
                                 !.yielded = <<>>, !.chat = chat, !.tries = @ + 1]}
               ELSE runs \ {r}
    /\ UNCHANGED <<ctxVars, chat, ipVars, speechVars, nStarted, nEntries, turnLog, rpVars>>
    /\ UNCHANGED <<rcVars, extVars>>

\* speech of a reply completes: () => setStatus('idle')
SpeechEndIdle ==
    /\ speechQ # <<>>
    /\ Head(speechQ).onEnd = "idle"
    /\ speechQ' = Tail(speechQ)
    /\ LET cb == Head(speechQ)
           st == IF page = "interview" /\ cb.session = session THEN "idle" ELSE status
           msgs == IF st # status THEN EffectBMsgs(page, st, transcript) ELSE <<>>
       IN /\ status' = st
          /\ runs' = runs \cup NewRuns(msgs, session, chat)
          /\ nStarted' = nStarted + Len(msgs)
    /\ turnLog' = "none"
    /\ UNCHANGED <<ctxVars, chat, session, currentAiResponse, isListening, nEntries,
                   rpVars>>
    /\ UNCHANGED <<rcVars, extVars>>

\* speech of the closing line completes: () => setPage('results')
SpeechEndClosing ==
    /\ speechQ # <<>>
    /\ Head(speechQ).onEnd = "results"
    /\ speechQ' = Tail(speechQ)
    /\ page' = "results"
    /\ isListening' = FALSE
    /\ IF page = "results"
       THEN UNCHANGED rpVars
       ELSE /\ SetResultsPage(MountResults(user, transcript, evaluation, MarkStale(fetches)))
            /\ endedBy' = "closing"
    /\ currentAiResponse' = IF page = "interview" THEN <<>> ELSE currentAiResponse
    /\ turnLog' = "none"
    /\ UNCHANGED <<user, interviewTypes, transcript, evaluation, roadmap, chat, session,
                   status, runs, nStarted, nEntries>>
    /\ UNCHANGED <<rcVars, extVars>>

\* the Finish control: disabled={transcript.length < 2}
FinishEnabled == Len(transcript) >= 2

\* handleFinishInterview
FinishInterview ==
    /\ page = "interview"
    /\ FinishEnabled
    /\ status' = "finished"
    /\ page' = "results"
    /\ isListening' = FALSE
    /\ SetResultsPage(MountResults(user, transcript, evaluation, MarkStale(fetches)))
    /\ endedBy' = "finish"
    /\ currentAiResponse' = <<>>
    /\ turnLog' = "none"
    /\ UNCHANGED <<user, interviewTypes, transcript, evaluation, roadmap, chat, session,
                   speechQ, runs, nStarted, nEntries>>
    /\ UNCHANGED <<rcVars, extVars>>

\* ------------------------------------------------------------ ResultsPage
Local(f, new, old) == IF f.stale THEN old ELSE new

\* setRoadmap: ids `todo-${index}-${Date.now()}`, completed false
setRoadmapNoIndex(newRoadmap, now) ==
    [i \in 1..Len(newRoadmap) |->
        [title |-> newRoadmap[i].title, id |-> <<"todo", 0, now>>, completed |-> FALSE]]
setRoadmap(newRoadmap, now) ==
    [i \in 1..Len(newRoadmap) |->
        [title |-> newRoadmap[i].title, id |-> <<"todo", i - 1, now>>,
         completed |-> FALSE]]

\* fetchResults, catch branch
FetchCatch(i, step) ==
    LET f == fetches[i]
        a == f.attempt + 1
    IN IF RetriesExhausted(a)
       THEN /\ error' = Local(f, Some(ExhaustedError), error)
            /\ isLoading' = Local(f, FALSE, isLoading)
            /\ fetches' = RemoveAt(fetches, i)
       ELSE /\ fetches' = [fetches EXCEPT ![i] =
                  [f EXCEPT !.attempt = a, !.pc = "backoff", !.lastFailed = step,
                            !.delays = Append(@, BackoffDelay(a))]]
            /\ UNCHANGED <<error, isLoading>>

\* generateEvaluation returns: setEvaluation, then generateRoadmap(evalResult.level, goal)
EvalReturn(i, e) ==
    /\ i \in 1..Len(fetches)
    /\ fetches[i].pc = "eval"
    /\ evaluation' = Some(e)
    /\ fetches' = [fetches EXCEPT ![i] =
          [@ EXCEPT !.pc = "roadmap", !.evalResult = Some(e),
                    !.rmArgs = <<e.level, fetches[i].user[1].goal>>]]
    /\ UNCHANGED <<page, user, interviewTypes, transcript, roadmap, chat, ipVars,
                   speechVars, turnVars, isLoading, error, effSawEval, endedBy>>
    /\ UNCHANGED <<rcVars, extVars>>

\* generateEvaluation throws
EvalFail(i) ==
    /\ i \in 1..Len(fetches)
    /\ fetches[i].pc = "eval"
    /\ FetchCatch(i, "eval")
    /\ UNCHANGED <<ctxVars, chat, ipVars, speechVars, turnVars, effSawEval, endedBy>>
    /\ UNCHANGED <<rcVars, extVars>>

\* generateRoadmap returns: setRoadmap, setIsLoading(false)
RoadmapReturn(i, items, now) ==
    /\ i \in 1..Len(fetches)
    /\ fetches[i].pc = "roadmap"
    /\ roadmap' = setRoadmap(items, now)
    /\ isLoading' = Local(fetches[i], FALSE, isLoading)
    /\ fetches' = RemoveAt(fetches, i)
    /\ lastCall' = [op |-> "set", items |-> items, id |-> <<>>]
    /\ UNCHANGED <<page, user, interviewTypes, transcript, evaluation, chat, ipVars,
                   speechVars, turnVars, error, effSawEval, endedBy>>
    /\ UNCHANGED <<rcVars, svcVars>>

\* generateRoadmap throws
RoadmapFail(i) ==
    /\ i \in 1..Len(fetches)
    /\ fetches[i].pc = "roadmap"
    /\ FetchCatch(i, "roadmap")
    /\ UNCHANGED <<ctxVars, chat, ipVars, speechVars, turnVars, effSawEval, endedBy>>
    /\ UNCHANGED <<rcVars, extVars>>

\* the backoff timer fires: the while loop tests attempt <= maxRetries and tries again
FetchRetry(i) ==
    /\ i \in 1..Len(fetches)
    /\ fetches[i].pc = "backoff"
    /\ IF fetches[i].attempt <= maxRetries
       THEN /\ fetches' = [fetches EXCEPT ![i] =
                  [@ EXCEPT !.pc = "eval", !.tries = @ + 1, !.lastFailed = "none",
                            !.evalResult = Null, !.rmArgs = <<>>]]
            /\ isLoading' = Local(fetches[i], TRUE, isLoading)
            /\ error' = Local(fetches[i], Null, error)
       ELSE /\ fetches' = RemoveAt(fetches, i)
            /\ UNCHANGED <<isLoading, error>>
    /\ UNCHANGED <<ctxVars, chat, ipVars, speechVars, turnVars, effSawEval, endedBy>>
    /\ UNCHANGED <<rcVars, extVars>>

\* ResultsPage unmounts: its local state is gone, its pending runs go on without it
UnmountResults ==
    /\ fetches' = MarkStale(fetches)
    /\ isLoading' = TRUE
    /\ error' = Null
    /\ effSawEval' = "none"
    /\ endedBy' = "none"

\* "Go to Dashboard", rendered with the evaluation
GoToDashboard ==
    /\ page = "results"
    /\ ~isLoading
    /\ error = Null
    /\ evaluation # Null
    /\ page' = "dashboard"
    /\ UnmountResults
    /\ UNCHANGED <<user, interviewTypes, transcript, evaluation, roadmap, chat, ipVars,
                   speechVars, turnVars>>
    /\ UNCHANGED <<rcVars, extVars>>

\* ------------------------------------------------------------ AppContext
\* startNewInterview
StartNewInterview ==
    /\ page \in {"results", "dashboard"}
    /\ user' = Null
    /\ interviewTypes' = <<>>
    /\ transcript' = <<>>
    /\ evaluation' = Null
    /\ roadmap' = <<>>
    /\ page' = "setup"
    /\ UnmountResults
    /\ status' = "thinking"
    /\ turnLog' = "none"
    /\ lastCall' = NoCall
    /\ UNCHANGED <<chat, session, currentAiResponse, speechVars, runs, nStarted, nEntries>>
    /\ UNCHANGED <<rcVars, svcVars>>

\* toggleTodo: prev.map(item => item.id === id ? {...item, completed: !item.completed} : item)
toggleTodoAll(prev, id) ==
    [i \in 1..Len(prev) |-> [prev[i] EXCEPT !.completed = ~@]]
toggleTodo(prev, id) ==
    [i \in 1..Len(prev) |->
        IF prev[i].id = id THEN [prev[i] EXCEPT !.completed = ~@] ELSE prev[i]]

\* a checkbox of the dashboard's roadmap list calls toggleTodo(id)
ToggleTodo(id) ==
    /\ page = "dashboard"
    /\ roadmap' = toggleTodo(roadmap, id)
    /\ lastCall' = [op |-> "toggle", items |-> <<>>, id |-> id]
    /\ UNCHANGED <<page, user, interviewTypes, transcript, evaluation, chat, ipVars,
                   speechVars, turnVars, rpVars>>
    /\ UNCHANGED <<rcVars, svcVars>>

\* setPage('results') from the navigation bar
NavigateResults ==
    /\ page \in {"setup", "dashboard"}
    /\ page' = "results"
    /\ SetResultsPage(MountResults(user, transcript, evaluation, MarkStale(fetches)))
    /\ endedBy' = "navigation"
    /\ UNCHANGED <<user, interviewTypes, transcript, evaluation, roadmap, chat, ipVars,
                   speechVars, turnVars>>
    /\ UNCHANGED <<rcVars, extVars>>

\* ----------------------------------------------------- ResumeCheckerPage
\* A text is a sequence of characters; a JSON value of the provider's payload is
\* a number, a string or null.
Num(n) == [t |-> "number", n |-> n, s |-> <<>>]
Str(s) == [t |-> "string", n |-> 0, s |-> s]
JNull == [t |-> "null", n |-> 0, s |-> <<>>]

NaN == <<>>
Digits == {"0", "1", "2", "3", "4", "5", "6", "7", "8", "9"}
DigitValue ==
    ("0" :> 0) @@ ("1" :> 1) @@ ("2" :> 2) @@ ("3" :> 3) @@ ("4" :> 4) @@
    ("5" :> 5) @@ ("6" :> 6) @@ ("7" :> 7) @@ ("8" :> 8) @@ ("9" :> 9)

RECURSIVE SkipWhite(_)
SkipWhite(str) ==
    IF str # <<>> /\ Head(str) = " " THEN SkipWhite(Tail(str)) ELSE str

RECURSIVE DigitPrefix(_)
DigitPrefix(str) ==
    IF str # <<>> /\ Head(str) \in Digits
    THEN <<Head(str)>> \o DigitPrefix(Tail(str))
    ELSE <<>>

RECURSIVE DecimalValue(_, _)
DecimalValue(digits, acc) ==
    IF digits = <<>> THEN acc
    ELSE DecimalValue(Tail(digits), 10 * acc + DigitValue[Head(digits)])

\* String(value), the conversion parseInt applies to its argument
StringOf(v) ==
    IF v.t = "string" THEN v.s
    ELSE IF v.t = "null" THEN <<"n", "u", "l", "l">>
    ELSE <<>>

\* parseInt(string, 10): leading white space, an optional sign, then the longest
\* run of decimal digits; NaN when there is no digit
parseInt(str) ==
    LET trimmed == SkipWhite(str)
        signed == trimmed # <<>> /\ Head(trimmed) \in {"-", "+"}
        digits == DigitPrefix(IF signed THEN Tail(trimmed) ELSE trimmed)
        sign == IF signed /\ Head(trimmed) = "-" THEN -1 ELSE 1
    IN IF digits = <<>> THEN NaN ELSE Some(sign * DecimalValue(digits, 0))

\* x || 0 for a number x: NaN and 0 are falsy
OrZero(x) == IF x = NaN \/ x = Some(0) THEN 0 ELSE x[1]

\* scoreResume after JSON.parse:
\* if (typeof result.score !== 'number') result.score = parseInt(result.score, 10) || 0
scoreResumeUncoerced(payload) == payload
scoreResume(payload) ==
    IF payload.score.t # "number"
    THEN [payload EXCEPT !.score = Num(OrZero(parseInt(StringOf(payload.score))))]
    ELSE payload

\* OpenAIAIService.scoreResume: getJsonResponse returns JSON.parse(jsonText) as it is
OpenAIScoreResume(payload) == payload

\* String.prototype.trim
RECURSIVE TrimEnd(_)
TrimEnd(str) ==
    IF str # <<>> /\ Last(str) = " " THEN TrimEnd(SubSeq(str, 1, Len(str) - 1)) ELSE str
Trim(str) == TrimEnd(SkipWhite(str))

canSubmit == Trim(resume) # <<>> /\ Trim(jobDescription) # <<>>

AnalysisError == "Sorry, an error occurred while analyzing. Please try again."

\* setPage('resume-checker') from the navigation bar; ResumeCheckerPage mounts
OpenResumeChecker ==
    /\ page \in {"setup", "dashboard"}
    /\ page' = "resume-checker"
    /\ UNCHANGED <<user, interviewTypes, transcript, evaluation, roadmap, chat, ipVars,
                   speechVars, turnVars, rpVars, extVars, rcVars>>

\* setPage('setup') from the navigation bar; ResumeCheckerPage unmounts and a call
\* still pending can no longer show anything
CloseResumeChecker ==
    /\ page = "resume-checker"
    /\ page' = "setup"
    /\ resume' = <<>>
    /\ jobDescription' = <<>>
    /\ result' = Null
    /\ rcIsLoading' = FALSE
    /\ rcError' = Null
    /\ rcPending' = <<>>
    /\ response' = Null
    /\ UNCHANGED <<user, interviewTypes, transcript, evaluation, roadmap, chat, ipVars,
                   speechVars, turnVars, rpVars, extVars>>

\* onChange of the resume textarea
SetResume(text) ==
    /\ page = "resume-checker"
    /\ resume' = text
    /\ UNCHANGED <<ctxVars, chat, ipVars, speechVars, turnVars, rpVars, extVars, jobDescription,
                   result, rcIsLoading, rcError, rcPending, response>>

\* onChange of the job description textarea
SetJobDescription(text) ==
    /\ page = "resume-checker"
    /\ jobDescription' = text
    /\ UNCHANGED <<ctxVars, chat, ipVars, speechVars, turnVars, rpVars, extVars, resume,
                   result, rcIsLoading, rcError, rcPending, response>>

\* handleSubmit up to its await: the button is disabled while !canSubmit || isLoading
handleSubmit ==
    /\ page = "resume-checker"
    /\ canSubmit
    /\ ~rcIsLoading
    /\ rcIsLoading' = TRUE
    /\ rcError' = Null
    /\ result' = Null
    /\ response' = Null
    /\ rcPending' = <<[resume |-> resume, jobDescription |-> jobDescription, tries |-> 1]>>
    /\ UNCHANGED <<ctxVars, chat, ipVars, speechVars, turnVars, rpVars, extVars, resume,
                   jobDescription>>

\* scoreResume returns: setResult(analysis), finally setIsLoading(false)
ScoreReturn(payload) ==
    /\ rcPending # <<>>
    /\ response' = Some(payload)
    /\ result' = Some(scoreResume(payload))
    /\ rcIsLoading' = FALSE
    /\ rcPending' = <<>>
    /\ UNCHANGED <<ctxVars, chat, ipVars, speechVars, turnVars, rpVars, extVars, resume,
                   jobDescription, rcError>>

\* scoreResume throws (the request failed, or JSON.parse rejected the text):
\* setError, finally setIsLoading(false)
ScoreFail ==
    /\ rcPending # <<>>
    /\ rcError' = Some(AnalysisError)
    /\ rcIsLoading' = FALSE
    /\ rcPending' = <<>>
    /\ UNCHANGED <<ctxVars, chat, ipVars, speechVars, turnVars, rpVars, extVars, resume,
                   jobDescription, result, response>>

\* ------------------------------------------------- the two provider clients
\* GeminiAIService and OpenAIAIService called directly, one consumer at a time.
\* A stream line is a sequence of tokens: "a" and "b" stand for a data: line whose
\* JSON carries that content, "D" for the line data: [DONE], "x" for a data: line
\* whose JSON is malformed, and "n" is the newline.
MaxCalls == 2
MaxReads == 2

ChatNotInitialized == "Chat not initialized. Call startInterviewChat first."
StreamingFailed == "Failed to get streaming response from OpenAI"
TransportFailed == "transport"

\* buffer.split('\n')
RECURSIVE SplitLines(_)
SplitLines(buf) ==
    IF \A k \in 1..Len(buf) : buf[k] # "n" THEN <<buf>>
    ELSE LET k == CHOOSE k \in 1..Len(buf) :
                      buf[k] = "n" /\ \A j \in 1..(k - 1) : buf[j] # "n"
         IN <<SubSeq(buf, 1, k - 1)>> \o SplitLines(SubSeq(buf, k + 1, Len(buf)))

\* line.startsWith('data: ') && line.substring(6).trim() === '[DONE]'
IsDone(line) == line = <<"D">>

\* JSON.parse(data).choices[0]?.delta?.content, nothing when the parse throws
FrameContent(line) == IF Len(line) = 1 /\ line[1] \in Frags THEN line ELSE <<>>

\* for (const line of lines): the contents yielded, the loop left at the sentinel
RECURSIVE ForLines(_)
ForLines(lines) ==
    IF lines = <<>> \/ IsDone(Head(lines)) THEN <<>>
    ELSE FrameContent(Head(lines)) \o ForLines(Tail(lines))

\* if (self.messageHistory.length === 0) throw
OpenAIInitializedAlways(history) == TRUE
OpenAIInitialized(history) == Len(history) # 0

\* if (!chatInstance) throw
GeminiInitialized(chatInstance) == chatInstance # Null

\* the clients are exercised on their own, before any interview
Harness == page = "setup" /\ session = 0

NewCall(client, message, reads) ==
    [client |-> client, message |-> message, chatInstance |-> chat, pc |-> "start",
     reads |-> reads, received |-> <<>>, buffer |-> <<>>, fullResponse |-> <<>>,
     yielded |-> <<>>,
     sawDone |-> FALSE, late |-> <<>>, error |-> "none"]

appUnchanged ==
    UNCHANGED <<ctxVars, ipVars, speechVars, turnVars, rpVars, rcVars, lastCall>>

\* GeminiAIService.startInterviewChat
GeminiStartInterviewChat(goal) ==
    /\ Harness
    /\ chat' = Some(goal)
    /\ UNCHANGED svcVars
    /\ appUnchanged

\* OpenAIAIService.startInterviewChat
OpenAIStartInterviewChat(goal) ==
    /\ Harness
    /\ messageHistory' = <<[role |-> "system", content |-> <<goal>>]>>
    /\ UNCHANGED <<chat, call, sent>>
    /\ appUnchanged

\* streamNextQuestion(message) returns the generator; its body has not run yet
StreamNextQuestion(client, message, reads) ==
    /\ Harness
    /\ call = Null
    /\ Len(sent) < MaxCalls
    /\ call' = Some(NewCall(client, message, reads))
    /\ UNCHANGED <<chat, messageHistory, sent>>
    /\ appUnchanged

\* the consumer's first next(): the initialization check, then the request
GeneratorStart ==
    /\ call # Null
    /\ call[1].pc = "start"
    /\ LET c == call[1] IN
       IF c.client = "openai"
       THEN IF OpenAIInitialized(messageHistory)
            THEN LET h == Append(messageHistory,
                                 [role |-> "user", content |-> c.message])
                 IN /\ messageHistory' = h
                    /\ sent' = Append(sent, [client |-> "openai", messages |-> h])
                    /\ call' = Some([c EXCEPT !.pc = "fetch"])
            ELSE /\ call' = Some([c EXCEPT !.pc = "failed", !.error = ChatNotInitialized])
                 /\ UNCHANGED <<messageHistory, sent>>
       ELSE IF GeminiInitialized(c.chatInstance)
            THEN /\ sent' = Append(sent, [client |-> "gemini",
                        messages |-> <<[role |-> "user", content |-> c.message]>>])
                 /\ call' = Some([c EXCEPT !.pc = "stream"])
                 /\ UNCHANGED messageHistory
            ELSE /\ call' = Some([c EXCEPT !.pc = "failed", !.error = ChatNotInitialized])
                 /\ UNCHANGED <<messageHistory, sent>>
    /\ UNCHANGED chat
    /\ appUnchanged

\* fetch settles: if (!response.ok || !response.body) throw
OpenAIResponse(ok) ==
    /\ call # Null
    /\ call[1].pc = "fetch"
    /\ call' = Some(IF ok THEN [call[1] EXCEPT !.pc = "read"]
                    ELSE [call[1] EXCEPT !.pc = "failed", !.error = StreamingFailed])
    /\ UNCHANGED <<chat, messageHistory, sent>>
    /\ appUnchanged

\* one turn of while (true): reader.read() delivers a chunk, the buffer is split and
\* the for loop runs over the complete lines
OpenAIRead ==
    /\ call # Null
    /\ call[1].pc = "read"
    /\ call[1].reads # <<>>
    /\ LET c == call[1]
           pieces == SplitLines(c.buffer \o Head(c.reads))
           lines == SubSeq(pieces, 1, Len(pieces) - 1)
           ys == ForLines(lines)
       IN call' = Some([c EXCEPT !.reads = Tail(@),
                                 !.received = @ \o Head(c.reads),
                                 !.buffer = Last(pieces),
                                 !.fullResponse = @ \o ys,
                                 !.yielded = @ \o ys,
                                 !.late = @ \o (IF c.sawDone THEN ys ELSE <<>>),
                                 !.sawDone = @ \/ \E i \in 1..Len(lines) : IsDone(lines[i])])
    /\ UNCHANGED <<chat, messageHistory, sent>>
    /\ appUnchanged

\* reader.read() reports done: the loop is left and the assistant message is pushed
OpenAIReadDone ==
    /\ call # Null
    /\ call[1].pc = "read"
    /\ call[1].reads = <<>>
    /\ messageHistory' = Append(messageHistory,
                                [role |-> "assistant", content |-> call[1].fullResponse])
    /\ call' = Some([call[1] EXCEPT !.pc = "done"])
    /\ UNCHANGED <<chat, sent>>
    /\ appUnchanged

\* reader.read() rejects
OpenAIReadFail ==
    /\ call # Null
    /\ call[1].pc = "read"
    /\ call' = Some([call[1] EXCEPT !.pc = "failed", !.error = TransportFailed])
    /\ UNCHANGED <<chat, messageHistory, sent>>
    /\ appUnchanged

\* for await (const chunk of stream) yield chunk.text
GeminiChunk(f) ==
    /\ call # Null
    /\ call[1].pc = "stream"
    /\ Len(call[1].yielded) < MaxFrags
    /\ call' = Some([call[1] EXCEPT !.yielded = Append(@, f), !.fullResponse = Append(@, f)])
    /\ UNCHANGED <<chat, messageHistory, sent>>
    /\ appUnchanged

\* the SDK's stream ends, or rejects
GeminiEnd(ok) ==
    /\ call # Null
    /\ call[1].pc = "stream"
    /\ call' = Some(IF ok THEN [call[1] EXCEPT !.pc = "done"]
                    ELSE [call[1] EXCEPT !.pc = "failed", !.error = TransportFailed])
    /\ UNCHANGED <<chat, messageHistory, sent>>
    /\ appUnchanged

\* the consumer is through with the generator
CallReturn ==
    /\ call # Null
    /\ call[1].pc \in {"done", "failed"}
    /\ call' = Null
    /\ UNCHANGED <<chat, messageHistory, sent>>
    /\ appUnchanged

Clients == {"gemini", "openai"}
Chunks ==
    {<<"a", "n">>, <<"b", "n">>, <<"x", "n">>, <<"D", "n">>, <<"a">>, <<"n">>,
     <<"a", "n", "D", "n">>, <<"D", "n", "b", "n">>}
RECURSIVE SeqsUpTo(_, _)
SeqsUpTo(S, n) ==
    IF n = 0 THEN {<<>>}
    ELSE SeqsUpTo(S, n - 1) \cup
         {Append(s, x) : s \in {t \in SeqsUpTo(S, n - 1) : Len(t) = n - 1}, x \in S}

ClientStep(goals, texts, chunks) ==
    \/ \E g \in goals : GeminiStartInterviewChat(g)
    \/ \E g \in goals : OpenAIStartInterviewChat(g)
    \/ \E cl \in Clients, x \in texts, rs \in SeqsUpTo(chunks, MaxReads) :
          StreamNextQuestion(cl, x, rs)
    \/ GeneratorStart
    \/ \E ok \in BOOLEAN : OpenAIResponse(ok)
    \/ OpenAIRead
    \/ OpenAIReadDone
    \/ OpenAIReadFail
    \/ \E f \in Frags : GeminiChunk(f)
    \/ \E ok \in BOOLEAN : GeminiEnd(ok)
    \/ CallReturn

\* ------------------------------------------------------------------ Next
Evaluations == [level : Levels]

\* what the provider's JSON text can parse to: an object whose level is one of the
\* three values, another string, or missing (the other five fields are not modelled)
Undefined == "undefined"
EvaluationPayloads == [level : Levels \cup {"Expert", Undefined}]

\* generateEvaluation's result: return JSON.parse(jsonText)
generateEvaluation(payload) == payload
\* handleUserSpeech's capture. videoRef and canvasRef are set whenever the page is
\* mounted, so the image is always what canvas.toDataURL returns: a frame when the
\* video has a feed, and the empty data URL when video.videoWidth is 0 (no feed).
EmptyDataURL == "data:,"
Feeds == {"live", "absent"}
toDataURL(feed) == IF feed = "live" THEN "frame" ELSE EmptyDataURL
Images == {toDataURL(fd) : fd \in Feeds}

\* one step of the program, its inputs drawn from the given sets
Step(goals, texts, images, frags, evals, payloads, cap) ==
    \/ \E g \in goals, ty \in TypeChoices : StartInterview("n", g, ty, cap)
    \/ StartListening
    \/ StopListening
    \/ \E x \in texts, im \in images : UserSpeech(x, im)
    \/ \E r \in runs, f \in frags : TurnFragment(r, f)
    \/ \E r \in runs : TurnSuccess(r)
    \/ \E r \in runs : TurnFail(r)
    \/ \E r \in runs : TurnRetry(r)
    \/ SpeechEndIdle
    \/ SpeechEndClosing
    \/ FinishInterview
    \/ \E i \in 1..Len(fetches), e \in evals : EvalReturn(i, e)
    \/ \E i \in 1..Len(fetches) : EvalFail(i)
    \/ \E i \in 1..Len(fetches), p \in payloads, now \in Times : RoadmapReturn(i, p, now)
    \/ \E i \in 1..Len(fetches) : RoadmapFail(i)
    \/ \E i \in 1..Len(fetches) : FetchRetry(i)
    \/ GoToDashboard
    \/ StartNewInterview
    \/ NavigateResults

ResumeTexts == {<<>>, <<" ">>, <<"c">>, <<" ", "c", " ">>}
ScoreValues ==
    {Num(-5), Num(0), Num(82), Num(150),
     Str(<<"8", "2">>), Str(<<" ", "8", "2">>), Str(<<"8", "2", ".", "7">>),
     Str(<<"1", "5", "0">>), Str(<<"-", "3">>), Str(<<"a", "b", "c">>), Str(<<>>),
     JNull}
ScorePayloads == [score : ScoreValues, strengths : {"s"}, weaknesses : {"w"}]

\* one step of the resume checker
ResumeStep(texts, payloads) ==
    \/ OpenResumeChecker
    \/ CloseResumeChecker
    \/ \E x \in texts : SetResume(x)
    \/ \E x \in texts : SetJobDescription(x)
    \/ handleSubmit
    \/ \E pl \in payloads : ScoreReturn(pl)
    \/ ScoreFail

\* the ids a checkbox may carry: those of a stored roadmap and one that is in none
TodoIds == {<<"todo", i, now>> : i \in 0..2, now \in Times}

Next ==
    \/ Step(Goals, UserTexts, Images, Frags,
            {generateEvaluation(pl) : pl \in EvaluationPayloads}, RoadmapPayloads, MaxTurns)
    \/ ResumeStep(ResumeTexts, ScorePayloads)
    \/ \E id \in TodoIds : ToggleTodo(id)
    \/ ClientStep(Goals, UserTexts, Chunks)

Spec == Init /\ [][Next]_vars

\* The control flow alone: every input set held to one value.
NextControl ==
    Step({"backend"}, UserTexts, {"frame"}, {"a"}, {[level |-> "Beginner"]},
         {<<[title |-> "t1"]>>}, MaxTurns)

SpecControl == Init /\ [][NextControl]_vars

\* The results pipeline with the provider's evaluations varied and the interview's
\* data held to one value each.
NextResults ==
    Step({"backend"}, UserTexts, {"frame"}, {"a"}, Evaluations, {<<[title |-> "t1"]>>},
         MaxTurns)

SpecResults == Init /\ [][NextResults]_vars

\* The streaming consumer with the provider's fragments varied.
NextStream ==
    Step({"backend"}, UserTexts, {"frame"}, Frags, {[level |-> "Beginner"]},
         {<<[title |-> "t1"]>>}, MaxTurns)

SpecStream == Init /\ [][NextStream]_vars

\* Interviews that follow one another, the first for the goal "backend" and the
\* next for either goal: a new interview may start while a turn of the previous
\* one is still in flight.
NextOverlap ==
    Step(IF session = 0 THEN {"backend"} ELSE Goals, UserTexts, {"frame"}, {"a"},
         {[level |-> "Beginner"]}, {<<[title |-> "t1"]>>}, MaxRuns)

SpecOverlap == Init /\ [][NextOverlap]_vars

\* The resume checker alone.
NextResume == ResumeStep(ResumeTexts, ScorePayloads)

SpecResume == Init /\ [][NextResume]_vars

\* getNextAiMessage called on a service whose chat may not have been created:
\* InterviewPage is mounted for a first interview, its opening turn is at its first
\* streamNextQuestion call, and this.chat is null or the chat of the goal.
InitService ==
    /\ page = "interview"
    /\ user = Some([name |-> "n", goal |-> "backend"])
    /\ interviewTypes = <<"technical">>
    /\ transcript = <<>>
    /\ evaluation = Null
    /\ roadmap = <<>>
    /\ chat \in {Null, Some("backend")}
    /\ session = 1
    /\ status = "thinking"
    /\ currentAiResponse = <<>>
    /\ isListening = FALSE
    /\ speechQ = <<>>
    /\ runs = {NewRun(1, 1, StartMessage, chat)}
    /\ nStarted = 1
    /\ nEntries = 1
    /\ turnLog = "none"
    /\ isLoading = TRUE
    /\ error = Null
    /\ fetches = <<>>
    /\ effSawEval = "none"
    /\ endedBy = "none"
    /\ ResumeCheckerUnmounted
    /\ ServicesConstructed

SpecService == InitService /\ [][NextControl]_vars

\* ================================================================ claims
RunIds(rs) == {r.id : r \in rs}

\* a run leaves through the success path: speak(fullText, () => setStatus('idle'))
SucceededIn(r) ==
    /\ r.pc = "stream"
    /\ r.id \notin RunIds(runs')
    /\ speechQ' = Append(speechQ, [onEnd |-> "idle", session |-> r.session])

SuccessAppendsOne ==
    \A r \in runs : SucceededIn(r) => transcript' = Append(transcript, AiMessage(r.fullText))

\* C1: every entry into 'thinking' (the mount with an empty transcript, each
\* handleUserSpeech) starts exactly one getNextAiMessage run, so the runs started
\* always number the entries; and the step in which a run succeeds appends exactly
\* one 'ai' message, the run's accumulated text, to the transcript.
C1_OneRunPerThinkingEntry ==
    [](nStarted = nEntries) /\ [][SuccessAppendsOne]_vars

\* a second turn has been entered by handleUserSpeech and its run has succeeded
C1_Witness ==
    /\ nEntries = 2
    /\ runs = {}
    /\ Len(transcript) = 3
    /\ transcript[2].speaker = "user"
    /\ transcript[3].speaker = "ai"
    /\ status = "speaking"

\* C2: no two getNextAiMessage runs of one interview session are in progress at
\* the same time.
C2_NoConcurrentTurns ==
    \A r1, r2 \in runs : r1.session = r2.session => r1.id = r2.id

\* a run sits in its backoff wait while the user has pressed Finish
C2_Witness ==
    /\ endedBy = "finish"
    /\ \E r \in runs : r.pc = "backoff" /\ r.session = session

\* the retry loop of a run x (a turn or a results run): at most three tries, one try
\* more than failures while a call is pending, waits of 2 s then 4 s, no third wait
RetryShape(x) ==
    /\ x.tries <= 3
    /\ x.attempt <= 2
    /\ x.delays = SubSeq(<<2000, 4000>>, 1, x.attempt)
    /\ x.tries = IF x.pc = "backoff" THEN x.attempt ELSE x.attempt + 1

\* C3: both retry loops try at most 3 times, wait 2 s after the first failure and
\* 4 s after the second, never wait after the third, and two failures followed by
\* a pending or successful third call make exactly 3 tries.
C3_RetryBackoff ==
    /\ \A r \in runs : RetryShape(r)
    /\ \A i \in 1..Len(fetches) : RetryShape(fetches[i])

\* a turn and a results run are both in their third try after waits of 2 s and 4 s
C3_Witness ==
    /\ \E r \in runs : r.tries = 3 /\ r.pc = "stream" /\ r.delays = <<2000, 4000>>
    /\ \E i \in 1..Len(fetches) :
          fetches[i].tries = 3 /\ fetches[i].pc = "roadmap"
            /\ fetches[i].delays = <<2000, 4000>>

\* C4: once the closing line spoken after retry exhaustion has completed and the
\* page has become 'results', the orchestrator's status is 'finished'.
C4_ClosingSetsFinished ==
    endedBy = "closing" => status = "finished"

\* C5: every pending generateEvaluation call has a non-empty transcript and a
\* non-null user as its arguments.
C5_EvaluationNeedsTranscript ==
    \A i \in 1..Len(fetches) :
        fetches[i].pc = "eval" =>
            Len(fetches[i].transcript) > 0 /\ fetches[i].user # Null

\* the results page was opened with no interview data after a session had been
\* reset, and the prerequisite check refused to call the provider
C5_Witness ==
    /\ error = Some(NoDataError)
    /\ session > 0
    /\ transcript = <<>>
    /\ page = "results"

\* the effect of ResultsPage runs in this step: the page mounts, or user or
\* transcript changes under it
ResultsEffectRuns ==
    /\ page' = "results"
    /\ page # "results" \/ transcript' # transcript \/ user' # user

PendingCalls(fs) == [i \in 1..Len(fs) |-> <<fs[i].pc, fs[i].tries>>]

\* C6: when the ResultsPage effect runs with evaluation already non-null, no
\* provider call is made and evaluation and roadmap are left unchanged.
C6_EffectIdempotent ==
    [][(ResultsEffectRuns /\ evaluation # Null) =>
          /\ PendingCalls(fetches') = PendingCalls(fetches)
          /\ evaluation' = evaluation
          /\ roadmap' = roadmap]_vars

\* the effect has run and found an evaluation
C6_Witness ==
    /\ page = "results"
    /\ effSawEval = "set"
    /\ evaluation # Null

\* C7: for one interview at most one fetchResults run is in flight.
C7_PipelineStartedOnce ==
    \A i, j \in 1..Len(fetches) : fetches[i].session = fetches[j].session => i = j

\* C8: when the results page shows the retry-exhausted error, the session context
\* holds no evaluation and no roadmap.
C8_NoPartialResult ==
    error = Some(ExhaustedError) => evaluation = Null /\ roadmap = <<>>

\* C9: the two steps are retried separately: after a wait that follows a
\* generateRoadmap failure the run does not call generateEvaluation again.
C9_SeparateCounters ==
    [][\A i \in 1..Len(fetches) :
          (/\ Len(fetches') = Len(fetches)
           /\ fetches[i].pc = "backoff"
           /\ fetches'[i].pc = "eval") => fetches[i].lastFailed = "eval"]_vars

\* C10: once evaluation is non-null it keeps its value until startNewInterview
\* resets the session.
C10_EvaluationWrittenOnce ==
    [][evaluation # Null =>
          \/ evaluation' = evaluation
          \/ evaluation' = Null /\ transcript' = <<>> /\ page' = "setup"]_vars

\* the streamed reply, in arrival order, has reached the transcript
StreamConsumed ==
    \A r \in runs :
        r.pc = "stream" =>
            /\ r.fullText = r.yielded
            /\ (Live(r) /\ r.yielded # <<>>) => currentAiResponse = r.yielded

SuccessAppendsYielded ==
    \A r \in runs : SucceededIn(r) => transcript' = Append(transcript, AiMessage(r.yielded))

\* C11: after the k-th fragment of an attempt the accumulator, and for the mounted
\* page the displayed partial, equal the k fragments yielded so far in arrival
\* order; on success the appended 'ai' message's text is all the fragments yielded
\* in that attempt, in arrival order.
C11_StreamConcatenation ==
    []StreamConsumed /\ [][SuccessAppendsYielded]_vars

\* a reply streamed as the two different fragments "a" then "b" is in the transcript
C11_Witness ==
    /\ turnLog = "clean"
    /\ \E i \in 1..Len(transcript) :
          transcript[i].speaker = "ai" /\ transcript[i].text = <<"a", "b">>

\* C12: when an attempt of a turn failed after yielding fragments and a later
\* attempt of the turn succeeds, the appended utterance is exactly what the
\* successful attempt yielded, and a new attempt starts from an empty accumulator.
C12_FailedPartialDiscarded ==
    [][\A r \in runs :
          /\ (SucceededIn(r) /\ r.lost) =>
                transcript' = Append(transcript, AiMessage(r.yielded))
          /\ (r.pc = "backoff" /\ r.lost) =>
                \A q \in runs' : (q.id = r.id /\ q.pc = "stream") => q.fullText = <<>>]_vars

\* a turn whose earlier attempt failed mid-stream has succeeded and its reply of
\* two fragments is the transcript's last entry
C12_Witness ==
    /\ turnLog = "recovered"
    /\ Len(transcript) > 0
    /\ Last(transcript).speaker = "ai"
    /\ Len(Last(transcript).text) = 2
    /\ Last(transcript).text # ErrorMessage

\* startNewInterview acts in this step: the session context is reset
SessionReset ==
    /\ transcript' = <<>>
    /\ user' = Null
    /\ evaluation' = Null
    /\ roadmap' = <<>>
    /\ page' = "setup"

\* C13: every change to the transcript appends exactly one message at its end and
\* leaves the existing entries and their order as they were, or is the reset to
\* the empty sequence by startNewInterview.
C13_TranscriptAppendOnly ==
    [][\/ transcript' = transcript
       \/ /\ Len(transcript') = Len(transcript) + 1
          /\ SubSeq(transcript', 1, Len(transcript)) = transcript
       \/ SessionReset]_vars

\* the transcript of a first interview was reset and the second interview has
\* appended to it again
C13_Witness ==
    /\ session = 2
    /\ page = "interview"
    /\ Len(transcript) >= 1
    /\ transcript[1].speaker = "ai"

\* C14: every streamNextQuestion call that is being served uses a chat created by
\* startInterviewChat with the goal of the current session.
C14_ChatOfCurrentGoal ==
    \A r \in runs :
        (r.pc = "stream" /\ r.chat # Null /\ user # Null) => r.chat = Some(user[1].goal)

\* the orchestrator of the mounted interview page is thinking or speaking
Busy == page = "interview" /\ status \in {"thinking", "speaking"}

UserMessageAppended ==
    /\ Len(transcript') = Len(transcript) + 1
    /\ Last(transcript').speaker = "user"

\* C15: while the status is 'thinking' or 'speaking' the capture control is
\* disabled and the recognizer is not listening, and a 'user' message is appended
\* only in a step taken from status 'idle'.
C15_NoInputWhileBusy ==
    [](Busy => ~MicEnabled /\ ~isListening)
      /\ [][UserMessageAppended => status = "idle"]_vars

\* the candidate's answer was taken at idle and its reply is now being produced
\* with the capture control disabled
C15_Witness ==
    /\ page = "interview"
    /\ status = "thinking"
    /\ Len(transcript) = 2
    /\ Last(transcript).speaker = "user"
    /\ ~MicEnabled
    /\ \E r \in runs : Live(r) /\ r.pc = "stream"

\* C16: whenever the Finish control of the interview page is enabled, the
\* transcript begins with the interviewer's question and holds at least one
\* candidate reply after it.
C16_FinishAfterFullExchange ==
    (page = "interview" /\ FinishEnabled) =>
        /\ transcript[1].speaker = "ai"
        /\ \E i \in 2..Len(transcript) : transcript[i].speaker = "user"

TurnErrorSurfaced(r) ==
    /\ r.pc = "stream"
    /\ r.id \notin RunIds(runs')
    /\ speechQ' = Append(speechQ, [onEnd |-> "results", session |-> r.session])

ResultsErrorSurfaced == error' = Some(ExhaustedError) /\ error # Some(ExhaustedError)

ResumeErrorSurfaced == rcError' # Null /\ rcError = Null

\* C18: at every call site of a provider operation an error is surfaced only
\* after the call was tried maxRetries + 1 times.
C18_EveryCallSiteRetries ==
    [][/\ \A r \in runs : TurnErrorSurfaced(r) => r.tries = maxRetries + 1
       /\ ResultsErrorSurfaced =>
             \E i \in 1..Len(fetches) : fetches[i].tries = maxRetries + 1
       /\ ResumeErrorSurfaced => rcPending[1].tries = maxRetries + 1]_vars

\* the score that ResumeCheckerPage shows
Score == result[1].score

\* C19: every score that scoreResume returns is an integer between 0 and 100.
C19_ScoreInRange ==
    result # Null => Score.t = "number" /\ Score.n \in 0..100

\* the payload's score and the score returned for it
Coerced(given, returned) == response[1].score = given => Score = returned

\* C20: the returned score is number-typed; a number is returned as it is, a
\* numeric-looking string yields the integer it starts with ("82" yields 82), a
\* score with no integer to parse yields 0, and strengths and weaknesses are
\* returned unchanged.
C20_ScoreCoercion ==
    result # Null =>
        /\ Score.t = "number"
        /\ response[1].score.t = "number" => Score = response[1].score
        /\ Coerced(Str(<<"8", "2">>), Num(82))
        /\ Coerced(Str(<<" ", "8", "2">>), Num(82))
        /\ Coerced(Str(<<"8", "2", ".", "7">>), Num(82))
        /\ Coerced(Str(<<"1", "5", "0">>), Num(150))
        /\ Coerced(Str(<<"-", "3">>), Num(-3))
        /\ Coerced(Str(<<"a", "b", "c">>), Num(0))
        /\ Coerced(Str(<<>>), Num(0))
        /\ Coerced(JNull, Num(0))
        /\ result[1].strengths = response[1].strengths
        /\ result[1].weaknesses = response[1].weaknesses

\* the provider answered with the score "82" as a string and the page holds 82
C20_Witness ==
    /\ result # Null
    /\ response[1].score = Str(<<"8", "2">>)
    /\ Score = Num(82)
    /\ ~rcIsLoading

\* The roadmap: the provider's roadmaps of one and of two items, and the dashboard's
\* checkboxes.
NextRoadmap ==
    \/ Step({"backend"}, UserTexts, {"frame"}, {"a"}, {[level |-> "Beginner"]},
            RoadmapPayloads, MaxTurns)
    \/ \E id \in TodoIds : ToggleTodo(id)

SpecRoadmap == Init /\ [][NextRoadmap]_vars

\* C21: after setRoadmap(items) the stored roadmap has the length and the order of
\* items, every item of it is not completed, and the ids of its items are pairwise
\* distinct.
C21_SetRoadmapShape ==
    lastCall.op = "set" =>
        /\ Len(roadmap) = Len(lastCall.items)
        /\ \A i \in 1..Len(roadmap) :
              /\ roadmap[i].title = lastCall.items[i].title
              /\ roadmap[i].completed = FALSE
        /\ \A i, j \in 1..Len(roadmap) : roadmap[i].id = roadmap[j].id => i = j

C21_Witness == lastCall.op = "set" /\ Len(roadmap) = 2

\* a step in which toggleTodo has been called
ToggleCalled == lastCall'.op = "toggle" /\ (lastCall' # lastCall \/ roadmap' # roadmap)

\* C22: toggleTodo(id) flips completed of the item whose id is id and changes
\* nothing else: the other items, every id and title, the length and the order stay,
\* and an id that is in no item changes nothing.
C22_ToggleFrame ==
    [][ToggleCalled =>
         /\ Len(roadmap') = Len(roadmap)
         /\ \A i \in 1..Len(roadmap) :
               /\ roadmap'[i].id = roadmap[i].id
               /\ roadmap'[i].title = roadmap[i].title
               /\ roadmap'[i].completed =
                     IF roadmap[i].id = lastCall'.id THEN ~roadmap[i].completed
                     ELSE roadmap[i].completed
         /\ UNCHANGED <<page, user, interviewTypes, transcript, evaluation>>]_vars

C22_Witness ==
    /\ lastCall.op = "toggle"
    /\ Len(roadmap) = 2
    /\ roadmap[1].id = lastCall.id
    /\ roadmap[1].completed
    /\ ~roadmap[2].completed

\* The provider clients alone.
NextClients == ClientStep({"backend"}, UserTexts, Chunks)

SpecClients == Init /\ [][NextClients]_vars

\* C23: GeminiAIService and OpenAIAIService are observationally equivalent on the
\* provider contract: for the same payload (a resume score delivered as a string
\* included) both return the same result.
C23_ProvidersAgree ==
    response # Null => OpenAIScoreResume(response[1]) = scoreResume(response[1])

\* C24: when the results pipeline runs with no evaluation yet and with user null or
\* an empty transcript, it sets the fixed 'No interview data found' error, ends the
\* loading state, makes no provider call and leaves evaluation and roadmap unchanged.
C24_MissingPrerequisiteSurfaced ==
    [][(ResultsEffectRuns /\ evaluation' = Null /\ (user' = Null \/ transcript' = <<>>)) =>
          /\ error' = Some(NoDataError)
          /\ isLoading' = FALSE
          /\ PendingCalls(fetches') = PendingCalls(fetches)
          /\ evaluation' = evaluation
          /\ roadmap' = roadmap]_vars

\* the results page is open with no user, no evaluation and no call pending, and it
\* shows the error with the loading state ended
C24_Witness ==
    /\ page = "results"
    /\ user = Null
    /\ evaluation = Null
    /\ error = Some(NoDataError)
    /\ ~isLoading
    /\ fetches = <<>>

\* the client whose generator is first consumed has had no startInterviewChat call
Uninitialized ==
    IF call[1].client = "openai" THEN messageHistory = <<>> ELSE chat = Null

\* C25: for both provider clients, consuming the sequence returned by
\* streamNextQuestion when no startInterviewChat has been called fails with the
\* 'Chat not initialized' error before any request is sent and without changing the
\* client's session state.
C25_UninitializedFailsFirst ==
    [][(call # Null /\ call[1].pc = "start" /\ call' # call /\ Uninitialized) =>
          /\ call' # Null
          /\ call'[1].pc = "failed"
          /\ call'[1].error = ChatNotInitialized
          /\ call'[1].yielded = <<>>
          /\ sent' = sent
          /\ messageHistory' = messageHistory
          /\ chat' = chat]_vars

C25_Witness ==
    /\ call # Null
    /\ call[1].client = "openai"
    /\ call[1].pc = "failed"
    /\ call[1].error = ChatNotInitialized
    /\ messageHistory = <<>>
    /\ sent = <<>>

\* C28: in the OpenAI stream parser, once a data: [DONE] line has been read no
\* fragment of a later line or a later read is yielded, and nothing from after the
\* sentinel is in the assistant message pushed to messageHistory.
\* (late holds the fragments yielded in a read that follows the sentinel's; every
\* yielded fragment is added to fullResponse, the assistant message.)
C28_NothingAfterDone ==
    call # Null /\ call[1].client = "openai" => call[1].late = <<>>

\* the status turns 'idle' in this step
BecomesIdle == status' = "idle" /\ status # "idle"

\* C26: on a successful turn the reply appended is the whole drained stream, and in
\* the same step the status becomes 'speaking' and the speech starts; the status
\* becomes 'idle' only when the completion callback of a reply's speech fires, with
\* the reply already the last message of the transcript.
C26_SuccessOrder ==
    [][/\ \A r \in runs :
            (SucceededIn(r) /\ Live(r)) =>
                /\ transcript' = Append(transcript, AiMessage(r.yielded))
                /\ status' = "speaking"
       /\ BecomesIdle =>
            /\ status = "speaking"
            /\ speechQ # <<>>
            /\ Head(speechQ).onEnd = "idle"
            /\ speechQ' = Tail(speechQ)
            /\ transcript # <<>>
            /\ Last(transcript).speaker = "ai"
            /\ transcript' = transcript]_vars

\* a reply has been appended and spoken, and its callback has set 'idle'
C26_Witness ==
    /\ page = "interview"
    /\ status = "idle"
    /\ speechQ = <<>>
    /\ Len(transcript) = 3
    /\ Last(transcript).speaker = "ai"

\* C27: from 'idle', activating capture moves the status to 'listening', and on the
\* mounted interview page the status reaches 'thinking' only from 'listening'.
C27_ListeningBetween ==
    [][/\ (page = "interview" /\ status = "idle" /\ ~isListening /\ isListening') =>
            status' = "listening"
       /\ (page = "interview" /\ status # "thinking" /\ status' = "thinking") =>
            status = "listening"]_vars

\* The interview with the camera's feed present or absent at each utterance.
NextCamera ==
    Step({"backend"}, UserTexts, Images, {"a"}, {[level |-> "Beginner"]},
         {<<[title |-> "t1"]>>}, MaxTurns)

SpecCamera == Init /\ [][NextCamera]_vars

\* C29: an image is attached only to 'user' messages and only when a video feed was
\* available when the utterance was finalized; no 'ai' message carries an image.
C29_ImageOnlyWithFeed ==
    \A i \in 1..Len(transcript) :
        /\ transcript[i].speaker = "ai" => transcript[i].image = "none"
        /\ transcript[i].speaker = "user" => transcript[i].image \in {"none", toDataURL("live")}

\* The results pipeline with every payload that parses as JSON.
NextEvaluation ==
    Step({"backend"}, UserTexts, {"frame"}, {"a"},
         {generateEvaluation(pl) : pl \in EvaluationPayloads}, {<<[title |-> "t1"]>>},
         MaxTurns)

SpecEvaluation == Init /\ [][NextEvaluation]_vars

\* C30: generateEvaluation fails on a payload that lacks a field or whose level is
\* outside {Beginner, Intermediate, Advanced}, so every evaluation stored in the
\* session context has its fields and a level of that set.
C30_StoredEvaluationValid ==
    evaluation # Null => evaluation[1].level \in Levels

\* Every provider attempt settles, every backoff timer fires and every speech
\* playback completes.
TurnFairness ==
    /\ \A i \in 1..(MaxRuns + 1) :
          /\ WF_vars(\E r \in runs : r.id = i /\ (TurnSuccess(r) \/ TurnFail(r)))
          /\ WF_vars(\E r \in runs : r.id = i /\ TurnRetry(r))
    /\ WF_vars(SpeechEndIdle)
    /\ WF_vars(SpeechEndClosing)

SpecTurnLive == Init /\ [][NextControl]_vars /\ TurnFairness

\* the mounted page is 'thinking' and a turn of its interview is in progress
TurnInProgress ==
    /\ page = "interview"
    /\ status = "thinking"
    /\ \E r \in runs : Live(r)

\* C31: from a 'thinking' state with a turn in progress, when every attempt and
\* every playback completes, the page reaches 'speaking' and from there 'idle', or
\* the results page (after the closing line of an exhausted turn, or when the
\* candidate finishes); it does not stay in 'thinking' forever.
C31_TurnEnds ==
    /\ TurnInProgress ~> ((page = "interview" /\ status = "speaking") \/ page = "results")
    /\ (page = "interview" /\ status = "speaking") ~>
          ((page = "interview" /\ status = "idle") \/ page = "results")

\* a turn whose three attempts failed has ended on the results page
C31_Witness ==
    /\ page = "results"
    /\ endedBy = "closing"
    /\ Last(transcript).text = ErrorMessage

\* C32: once the results page has been reached the transcript is not modified and
\* no speech is started until startNewInterview: a turn in flight when Finish is
\* pressed appends nothing and speaks nothing afterwards.
C32_TranscriptFrozenAfterEnd ==
    [][(page = "results" /\ page' = "results") =>
          /\ transcript' = transcript
          /\ Len(speechQ') <= Len(speechQ)]_vars

\* C33: in messageHistory the candidate's message of a turn appears once, followed
\* by the assistant's reply, also when attempts of the turn failed and the caller
\* called streamNextQuestion again: after the system message the roles alternate
\* user, assistant.
C33_HistoryAlternates ==
    \A i \in 1..Len(messageHistory) :
        messageHistory[i].role =
            IF i = 1 THEN "system" ELSE IF i % 2 = 0 THEN "user" ELSE "assistant"

\* the fragments yielded when the bytes arrive in one read
OneRead(bytes) ==
    LET pieces == SplitLines(bytes)
    IN ForLines(SubSeq(pieces, 1, Len(pieces) - 1))

\* C34: the fragments yielded by the OpenAI stream parser depend only on the bytes
\* received, not on how they are split into reads: they are the fragments yielded
\* when the same bytes arrive in one read.
C34_ChunkingIndependent ==
    (call # Null /\ call[1].client = "openai") =>
        call[1].yielded = OneRead(call[1].received)

\* C35: the transcript alternates speakers starting with the interviewer: its first
\* entry is not a 'user' message and no two consecutive entries have one speaker.
C35_SpeakersAlternate ==
    /\ transcript # <<>> => transcript[1].speaker = "ai"
    /\ \A i \in 1..(Len(transcript) - 1) :
          transcript[i].speaker # transcript[i + 1].speaker

\* a run of fetchResults started by the mounted results page ends in this step
PipelineRunEnds ==
    /\ page = "results"
    /\ \E i \in 1..Len(fetches) : ~fetches[i].stale /\ fetches' = RemoveAt(fetches, i)

\* C36: a run of the results pipeline ends with isLoading false and exactly one
\* outcome: the error is set, or the evaluation is stored and the roadmap has been
\* set; never neither and never both.
C36_OneOutcome ==
    [][PipelineRunEnds =>
          /\ isLoading' = FALSE
          /\ (error' # Null) # (evaluation' # Null /\ roadmap' # <<>>)]_vars

====
